---- MODULE Spec2Model ----
(***************************************************************************)
(* Model of the embedding batcher of the Tensor inference service          *)
(* (src/tensor/app/services/batcher.py) together with the wiring of the    *)
(* service (app/state.py, app/main.py).                                    *)
(*                                                                         *)
(* One EmbedBatcher instance is observed: the one the routes use           *)
(* (app.state) or the one startup() connects to the store (app.main).     *)
(* Submitters call                                                         *)
(* process_embed_request concurrently, the single run() task forms batches *)
(* and _process_batch dispatches them.  Every await of the code is a point *)
(* where other coroutines may run, so _process_batch is split at its       *)
(* awaits (mget, embed_batch, each redis.set); the code between two awaits *)
(* is one atomic step.                                                     *)
(***************************************************************************)
EXTENDS Integers, Sequences, FiniteSets, TLC

(***************************************************************************)
(* Bounds of the model.                                                    *)
(***************************************************************************)
MaxRequests == 2
max_batch == 2

\* Python's None, where a value or a vector is expected.
None == [none |-> TRUE]

\* No adapter bound to the variable adapter.
NoAdapter == "none"

(***************************************************************************)
(* Adapters: identity strings are sequences of characters (abbreviated).   *)
(***************************************************************************)
Adapters == {"openai", "local"}

name(a) == IF a = "openai" THEN <<"o">> ELSE <<"l">>

version(a) == IF a = "openai" THEN <<"v">> ELSE <<"w">>

Texts == {<<"a">>, <<"b">>}

\* The input lists requests are made with: none, one text, two texts.
InputLists == {<<>>, << <<"a">> >>, << <<"b">>, <<"a">> >>}

\* sha_key: the digest is fed the parts one after the other, without a
\* separator; SHA-256 itself is taken as injective on that byte stream.
sha_key(n, v, text) == n \o v \o text

\* The vector adapter a computes for a text.
Vec(a, text) == [by |-> a, of |-> text]

\* json.dumps / json.loads of a vector: a well-formed cache value wraps the
\* list; anything else cannot be decoded.
json_dumps(vec) == [json |-> vec]

WellFormed(val) == DOMAIN val = {"json"}

json_loads(val) == val.json

CacheTTL == 60 * 60 * 24 * 30

VARIABLES
    instance,        \* which module-level batcher is observed: app.state's or app.main's
    redis,           \* per module-level batcher: self.redis is set (TRUE) or None (FALSE)
    cache,           \* the external store: key -> None or [val, ex] (no entry expires within a run)
    queue,           \* self.queue: sequence of request ids (work items)
    requests,        \* every call of process_embed_request: its arguments, its waiter, its outcome
    bpc,             \* position of the run() task
    expired,         \* time.time() - start_time has reached max_batch_wait_ms
    batch,           \* run(): batch (request ids, in order)
    adapter,         \* _process_batch: local variable adapter
    flat_inputs,     \* _process_batch: flat_inputs
    mapping,         \* _process_batch: mapping, as <<job, position>>
    keys,            \* _process_batch: keys
    vectors,         \* _process_batch: vectors
    cached_flags,    \* _process_batch: cached_flags
    to_call,         \* _process_batch: to_call
    to_call_indices, \* _process_batch: to_call_indices
    call_results,    \* _process_batch: call_results
    idx_local,       \* _process_batch: position of the write-through loop
    last,            \* history: the last dispatch that ended (batch, error, cancelled waiters)
    stopped,         \* the shutdown handler has run: the process is over
    call             \* a call of choose_adapter: its arguments and what it did

vars == <<instance, redis, cache, queue, requests, bpc, expired, batch, adapter,
          flat_inputs, mapping, keys, vectors, cached_flags, to_call,
          to_call_indices, call_results, idx_local, last, stopped, call>>

locals == <<adapter, flat_inputs, mapping, keys, vectors, cached_flags, to_call,
            to_call_indices, call_results, idx_local>>

Range(s) == {s[i] : i \in DOMAIN s}

AllKeys == {sha_key(name(a), version(a), t) : a \in Adapters, t \in Texts}

NoDispatch == [batch |-> <<>>, exc |-> "none", crashed |-> FALSE, cancelled |-> {},
               adapter |-> NoAdapter, outcome |-> "none"]

\* self.redis of the observed batcher.
self_redis == redis[instance]

\* No call of choose_adapter is observed.
NoCall == [pc |-> "none"]

\* The module-level objects after import: two batchers without a store,
\* their queues empty, run() waiting for its first item.
Constructed ==
    /\ instance \in {"state", "main"}
    /\ redis = [b \in {"state", "main"} |-> FALSE]
    /\ cache = [k \in AllKeys |-> None]
    /\ queue = <<>>
    /\ requests = <<>>
    /\ bpc = "head"
    /\ expired = FALSE
    /\ batch = <<>>
    /\ adapter = NoAdapter
    /\ flat_inputs = <<>>
    /\ mapping = <<>>
    /\ keys = <<>>
    /\ vectors = <<>>
    /\ cached_flags = <<>>
    /\ to_call = <<>>
    /\ to_call_indices = <<>>
    /\ call_results = <<>>
    /\ idx_local = 0
    /\ last = NoDispatch
    /\ stopped = FALSE

Init == Constructed /\ call = NoCall

\* redis.mget(keys) when the store answers.
mget(ks) == [i \in DOMAIN ks |-> IF cache[ks[i]] = None THEN None ELSE cache[ks[i]].val]

\* main.py startup(): start_redis() is called on the batcher of app.main;
\* the routes use the batcher of app.state, whose redis stays None.
startup ==
    /\ ~stopped
    /\ ~redis["main"]
    /\ redis' = [redis EXCEPT !["main"] = TRUE]
    /\ UNCHANGED <<stopped, call, instance, cache, queue, requests, bpc, expired, batch, locals, last>>

\* main.py shutdown(): close_redis() on the batcher of app.main, which
\* closes the connection when one was opened and leaves self.redis set.
\* Neither batcher's queue nor its waiters are touched.  The event loop
\* ends after the handler: nothing runs any more.
shutdown ==
    /\ ~stopped
    /\ redis["main"]
    /\ stopped' = TRUE
    /\ UNCHANGED <<call, instance, redis, cache, queue, requests, bpc, expired, batch, locals, last>>

\* The request holds a result with one real vector per input.
FullResult(j) ==
    /\ requests[j].st \in {"fast", "result"}
    /\ Len(requests[j].res.vectors) = Len(requests[j].inputs)
    /\ Len(requests[j].res.cached) = Len(requests[j].inputs)
    /\ \A i \in DOMAIN requests[j].res.vectors : requests[j].res.vectors[i] # None

\* History: when a request with these arguments is made, each of its inputs
\* was an input of a request of the same adapter that has completed with a
\* full result.
Warm(a, inputs) ==
    /\ inputs # <<>>
    /\ \A p \in DOMAIN inputs :
          \E i \in DOMAIN requests :
              /\ FullResult(i)
              /\ requests[i].adapter = a
              /\ inputs[p] \in Range(requests[i].inputs)

Request(a, inputs, st, res) ==
    [adapter |-> a, inputs |-> inputs, st |-> st, res |-> res, warm |-> Warm(a, inputs)]

Result(a, vecs, flags) ==
    [adapter_name |-> name(a), adapter_version |-> version(a), vectors |-> vecs, cached |-> flags]

\* A submitter that probes nothing and always puts its work on the queue.
process_embed_request_no_fast_path(a, inputs, fails) ==
    /\ ~stopped
    /\ redis["main"]
    /\ fails => self_redis
    /\ requests' = Append(requests, Request(a, inputs, "pending", None))
    /\ queue' = Append(queue, Len(requests) + 1)
    /\ UNCHANGED <<stopped, call, instance, redis, cache, bpc, expired, batch, locals, last>>

\* process_embed_request(adapter, inputs); fails: the store's mget raises.
\* The request id (job_uuid) is the position of the request in requests.
\* Requests are served once the application has started.
process_embed_request(a, inputs, fails) ==
    /\ ~stopped
    /\ redis["main"]
    /\ fails => self_redis
    /\ LET ks == [i \in DOMAIN inputs |-> sha_key(name(a), version(a), inputs[i])]
           cached == mget(ks)
           job_uuid == Len(requests) + 1
       IN  IF self_redis /\ fails
           THEN /\ requests' = Append(requests, Request(a, inputs, "raised", [error |-> "cache_read"]))
                /\ queue' = queue
           ELSE IF self_redis /\ \A i \in DOMAIN cached : cached[i] # None
           THEN IF \A i \in DOMAIN cached : WellFormed(cached[i])
                THEN /\ requests' = Append(requests, Request(a, inputs, "fast",
                            Result(a, [i \in DOMAIN cached |-> json_loads(cached[i])],
                                      [i \in DOMAIN cached |-> TRUE])))
                     /\ queue' = queue
                ELSE /\ requests' = Append(requests, Request(a, inputs, "raised", [error |-> "decode"]))
                     /\ queue' = queue
           ELSE /\ requests' = Append(requests, Request(a, inputs, "pending", None))
                /\ queue' = Append(queue, job_uuid)
    /\ UNCHANGED <<stopped, call, instance, redis, cache, bpc, expired, batch, locals, last>>

\* asyncio.wait_for(future, timeout=30.0) expires: the waiter is cancelled
\* and the submitter gets TimeoutError.
wait_for_timeout(j) ==
    /\ ~stopped
    /\ requests[j].st = "pending"
    /\ requests' = [requests EXCEPT ![j].st = "cancelled", ![j].res = [error |-> "TimeoutError"]]
    /\ UNCHANGED <<stopped, call, instance, redis, cache, queue, bpc, expired, batch, locals, last>>

\* The batching window, counted from start_time (taken at the top of the
\* loop, before the blocking get), runs out.
window_elapses ==
    /\ ~stopped
    /\ bpc \in {"head", "fill"}
    /\ ~expired
    /\ expired' = TRUE
    /\ UNCHANGED <<stopped, call, instance, redis, cache, queue, requests, bpc, batch, locals, last>>

\* run(): item = await self.queue.get(); batch.append(item)
run_get_head ==
    /\ ~stopped
    /\ bpc = "head"
    /\ queue # <<>>
    /\ batch' = <<Head(queue)>>
    /\ queue' = Tail(queue)
    /\ bpc' = "fill"
    /\ UNCHANGED <<stopped, call, instance, redis, cache, requests, expired, locals, last>>

\* A loop that reads the next item without taking it off the queue.
run_fill_peek ==
    /\ ~stopped
    /\ bpc = "fill"
    /\ Len(batch) < max_batch
    /\ ~expired
    /\ queue # <<>>
    /\ batch' = Append(batch, Head(queue))
    /\ UNCHANGED <<stopped, call, instance, redis, cache, queue, requests, bpc, expired, locals, last>>

\* run(): one more item is received inside the window.
run_fill ==
    /\ ~stopped
    /\ bpc = "fill"
    /\ Len(batch) < max_batch
    /\ ~expired
    /\ queue # <<>>
    /\ batch' = Append(batch, Head(queue))
    /\ queue' = Tail(queue)
    /\ UNCHANGED <<stopped, call, instance, redis, cache, requests, bpc, expired, locals, last>>

RECURSIVE Flatten(_)
\* _process_batch: the flattening loop, as <<text, job, position>> triples.
Flatten(b) ==
    IF b = <<>> THEN <<>>
    ELSE [i \in DOMAIN requests[Head(b)].inputs |->
             <<requests[Head(b)].inputs[i], Head(b), i>>] \o Flatten(Tail(b))

\* A dispatch that builds the keys with the adapter of the head item
\* (adapter = batch[0][1]) and calls the adapter of the last item.
run_close_batch_head_keys ==
    /\ ~stopped
    /\ bpc = "fill"
    /\ Len(batch) >= max_batch \/ expired
    /\ LET flat == Flatten(batch)
           hd == requests[batch[1]].adapter
       IN  /\ adapter' = requests[batch[Len(batch)]].adapter
           /\ flat_inputs' = [i \in DOMAIN flat |-> flat[i][1]]
           /\ mapping' = [i \in DOMAIN flat |-> <<flat[i][2], flat[i][3]>>]
           /\ keys' = [i \in DOMAIN flat |-> sha_key(name(hd), version(hd), flat[i][1])]
    /\ bpc' = "probe"
    /\ UNCHANGED <<stopped, call, instance, redis, cache, queue, requests, expired, batch, vectors,
                   cached_flags, to_call, to_call_indices, call_results, idx_local, last>>

\* run(): the batch is closed (full, or window over) and _process_batch
\* starts: it runs up to the await of mget.  The loop variable of the
\* flattening loop is called adapter too, so after the loop adapter is the
\* adapter of the last item of the batch.
run_close_batch ==
    /\ ~stopped
    /\ bpc = "fill"
    /\ Len(batch) >= max_batch \/ expired
    /\ LET flat == Flatten(batch)
           ad == requests[batch[Len(batch)]].adapter
       IN  /\ adapter' = ad
           /\ flat_inputs' = [i \in DOMAIN flat |-> flat[i][1]]
           /\ mapping' = [i \in DOMAIN flat |-> <<flat[i][2], flat[i][3]>>]
           /\ keys' = [i \in DOMAIN flat |-> sha_key(name(ad), version(ad), flat[i][1])]
    /\ bpc' = "probe"
    /\ UNCHANGED <<stopped, call, instance, redis, cache, queue, requests, expired, batch, vectors,
                   cached_flags, to_call, to_call_indices, call_results, idx_local, last>>

\* Future.done() and not cancelled: a result or an exception is set.
Done(r) == r.st \in {"result", "error"}

\* A handler that leaves its loop after the first waiter.
fail_batch_head_only(reqs, b, e) ==
    [k |-> "end",
     requests |-> [j \in DOMAIN reqs |->
                    IF b # <<>> /\ b[1] = j /\ reqs[j].st = "pending"
                    THEN [reqs[j] EXCEPT !.st = "error", !.res = [error |-> e]]
                    ELSE reqs[j]],
     exc |-> e,
     crashed |-> FALSE]

\* except Exception as e: for _, _, _, fut in batch: if not fut.cancelled():
\* fut.set_exception(e).  set_exception on a waiter that already holds a
\* result raises InvalidStateError inside the handler, which leaves
\* _process_batch and ends run().
fail_batch(reqs, b, e) ==
    LET done == {i \in DOMAIN b : Done(reqs[b[i]])}
        stop == IF done = {} THEN Len(b) + 1 ELSE CHOOSE i \in done : \A k \in done : i <= k
    IN  [k |-> "end",
         requests |-> [j \in DOMAIN reqs |->
                        IF /\ \E i \in 1..(stop - 1) : b[i] = j
                           /\ reqs[j].st = "pending"
                        THEN [reqs[j] EXCEPT !.st = "error", !.res = [error |-> e]]
                        ELSE reqs[j]],
         exc |-> e,
         crashed |-> done # {}]

\* results_by_job[job_uuid], sorted by position: the slots of the flat
\* arrays that the mapping gives to the job.
parts(m, vals, j) ==
    LET idx == {i \in DOMAIN m : m[i][1] = j}
        at(p) == CHOOSE i \in idx : m[i][2] = p
    IN  [p \in 1..Cardinality(idx) |-> vals[at(p)]]

\* A fan-out without the test of future.cancelled(): set_result on a
\* cancelled waiter raises InvalidStateError.
fan_out_unchecked(reqs, b, m, vecs, flags) ==
    LET bad == {i \in DOMAIN b : reqs[b[i]].inputs = <<>> \/ reqs[b[i]].st = "cancelled"}
        stop == IF bad = {} THEN Len(b) + 1 ELSE CHOOSE i \in bad : \A k \in bad : i <= k
        set == [j \in DOMAIN reqs |->
                 IF \E i \in 1..(stop - 1) : b[i] = j
                 THEN [reqs[j] EXCEPT !.st = "result",
                          !.res = Result(reqs[j].adapter, parts(m, vecs, j), parts(m, flags, j))]
                 ELSE reqs[j]]
    IN  IF bad = {}
        THEN [k |-> "end", requests |-> set, exc |-> "none", crashed |-> FALSE]
        ELSE fail_batch(set, b, IF reqs[b[stop]].inputs = <<>> THEN "KeyError"
                                ELSE "InvalidStateError")

\* Lines 127-136: the results are grouped by job and every waiter that is
\* not cancelled gets (name, version, vectors, cached) of ITS OWN adapter.
\* A job without inputs has no entry in results_by_job: KeyError, after the
\* waiters before it were completed.
fan_out(reqs, b, m, vecs, flags) ==
    LET empty == {i \in DOMAIN b : reqs[b[i]].inputs = <<>>}
        stop == IF empty = {} THEN Len(b) + 1 ELSE CHOOSE i \in empty : \A k \in empty : i <= k
        set == [j \in DOMAIN reqs |->
                 IF /\ \E i \in 1..(stop - 1) : b[i] = j
                    /\ reqs[j].st # "cancelled"
                 THEN [reqs[j] EXCEPT !.st = "result",
                          !.res = Result(reqs[j].adapter, parts(m, vecs, j), parts(m, flags, j))]
                 ELSE reqs[j]]
    IN  IF empty = {}
        THEN [k |-> "end", requests |-> set, exc |-> "none", crashed |-> FALSE]
        ELSE fail_batch(set, b, "KeyError")

RECURSIVE write_loop(_, _, _, _)
\* Lines 121-125 from iteration i on, up to the next await: IndexError when
\* the adapter returned more vectors than texts, the await of redis.set when
\* a store is configured, the fan-out when the loop is over.
write_loop(i, vecs, cr, reqs) ==
    IF i > Len(cr) THEN fan_out(reqs, batch, mapping, vecs, cached_flags)
    ELSE IF i > Len(to_call_indices) THEN fail_batch(reqs, batch, "IndexError")
    ELSE LET v2 == [vecs EXCEPT ![to_call_indices[i]] = cr[i]]
         IN  IF self_redis THEN [k |-> "set", idx |-> i, vectors |-> v2]
             ELSE write_loop(i + 1, v2, cr, reqs)

\* What embed_batch of adapter a may do with the texts it is given.
EmbedOutcomes == {"ok", "short", "long", "raise"}

embed_batch(a, texts, outcome) ==
    LET full == [i \in DOMAIN texts |-> Vec(a, texts[i])]
    IN  CASE outcome = "ok" -> full
          [] outcome = "short" -> SubSeq(full, 1, Len(full) - 1)
          [] outcome = "long" -> Append(full, Vec(a, <<>>))

\* The state after a step of _process_batch: either it waits in redis.set,
\* or the dispatch is over and run() is back at the top of its loop (or
\* ended by the exception that left the handler).
proceed(o, cr, outcome) ==
    IF o.k = "set"
    THEN /\ bpc' = "set"
         /\ idx_local' = o.idx
         /\ vectors' = o.vectors
         /\ call_results' = cr
         /\ UNCHANGED <<requests, expired, batch, adapter, flat_inputs, mapping, keys,
                        cached_flags, to_call, to_call_indices, last>>
    ELSE /\ requests' = o.requests
         /\ bpc' = IF o.crashed THEN "dead" ELSE "head"
         /\ expired' = FALSE
         /\ batch' = <<>>
         /\ adapter' = NoAdapter
         /\ flat_inputs' = <<>>
         /\ mapping' = <<>>
         /\ keys' = <<>>
         /\ vectors' = <<>>
         /\ cached_flags' = <<>>
         /\ to_call' = <<>>
         /\ to_call_indices' = <<>>
         /\ call_results' = <<>>
         /\ idx_local' = 0
         /\ last' = [batch |-> batch, exc |-> o.exc, crashed |-> o.crashed,
                     cancelled |-> {j \in Range(batch) : requests[j].st = "cancelled"},
                     adapter |-> adapter, outcome |-> outcome]

\* _process_batch resumes from mget (line 104) and runs lines 106-117; with
\* nothing to call it goes on to the fan-out.  fails: mget raises.
process_batch_probe(fails) ==
    /\ ~stopped
    /\ bpc = "probe"
    /\ fails => self_redis
    /\ UNCHANGED <<stopped, call, instance, redis, cache, queue>>
    /\ IF self_redis /\ fails
       THEN proceed(fail_batch(requests, batch, "cache_read"), <<>>, "none")
       ELSE LET cached_results == IF self_redis THEN mget(keys) ELSE [i \in DOMAIN flat_inputs |-> None]
                misses == {i \in DOMAIN cached_results : cached_results[i] = None}
                nth(k) == CHOOSE i \in misses : Cardinality({m \in misses : m < i}) = k - 1
                tci == [k \in 1..Cardinality(misses) |-> nth(k)]
                vecs == [i \in DOMAIN cached_results |->
                           IF i \in misses THEN None ELSE json_loads(cached_results[i])]
                flags == [i \in DOMAIN cached_results |-> i \notin misses]
            IN  IF \E i \in DOMAIN cached_results : i \notin misses /\ ~WellFormed(cached_results[i])
                THEN proceed(fail_batch(requests, batch, "decode"), <<>>, "none")
                ELSE IF tci # <<>>
                THEN /\ to_call' = [k \in DOMAIN tci |-> flat_inputs[tci[k]]]
                     /\ to_call_indices' = tci
                     /\ vectors' = vecs
                     /\ cached_flags' = flags
                     /\ bpc' = "embed"
                     /\ UNCHANGED <<requests, expired, batch, adapter, flat_inputs, mapping,
                                    keys, call_results, idx_local, last>>
                ELSE proceed(fan_out(requests, batch, mapping, vecs, flags), <<>>, "none")

\* _process_batch resumes from adapter.embed_batch(to_call) (line 120), on
\* the adapter the variable adapter holds.
process_batch_embed(outcome) ==
    /\ ~stopped
    /\ bpc = "embed"
    /\ UNCHANGED <<stopped, call, instance, redis, cache, queue>>
    /\ IF outcome = "raise"
       THEN proceed(fail_batch(requests, batch, "adapter_error"), <<>>, outcome)
       ELSE LET cr == embed_batch(adapter, to_call, outcome)
            IN  proceed(write_loop(1, vectors, cr, requests), cr, outcome)

\* How the length of call_results compares with the length of to_call.
returned ==
    IF Len(call_results) = Len(to_call) THEN "ok"
    ELSE IF Len(call_results) < Len(to_call) THEN "short" ELSE "long"

\* A write-through that sets no expiry.
process_batch_set_no_expiry(fails) ==
    /\ ~stopped
    /\ bpc = "set"
    /\ UNCHANGED <<stopped, call, instance, redis, queue>>
    /\ IF fails
       THEN /\ cache' = cache
            /\ proceed(fail_batch(requests, batch, "cache_write"), call_results, returned)
       ELSE /\ cache' = [cache EXCEPT ![keys[to_call_indices[idx_local]]] =
                            [val |-> json_dumps(call_results[idx_local]), ex |-> 0]]
            /\ proceed(write_loop(idx_local + 1, vectors, call_results, requests), call_results, returned)

\* _process_batch resumes from redis.set(keys[idx_global], json.dumps(vec),
\* ex=60*60*24*30) (line 125).  fails: set raises.
process_batch_set(fails) ==
    /\ ~stopped
    /\ bpc = "set"
    /\ UNCHANGED <<stopped, call, instance, redis, queue>>
    /\ IF fails
       THEN /\ cache' = cache
            /\ proceed(fail_batch(requests, batch, "cache_write"), call_results, returned)
       ELSE /\ cache' = [cache EXCEPT ![keys[to_call_indices[idx_local]]] =
                            [val |-> json_dumps(call_results[idx_local]), ex |-> CacheTTL]]
            /\ proceed(write_loop(idx_local + 1, vectors, call_results, requests), call_results, returned)

Next ==
    \/ startup
    \/ \E a \in Adapters, inputs \in InputLists, fails \in BOOLEAN :
          Len(requests) < MaxRequests /\ process_embed_request(a, inputs, fails)
    \/ \E j \in DOMAIN requests : wait_for_timeout(j)
    \/ window_elapses
    \/ run_get_head
    \/ run_fill
    \/ run_close_batch
    \/ \E fails \in BOOLEAN : process_batch_probe(fails)
    \/ \E outcome \in EmbedOutcomes : process_batch_embed(outcome)
    \/ \E fails \in BOOLEAN : process_batch_set(fails)

Spec == Init /\ [][Next]_vars

\* The service from start to teardown: the shutdown handler may run at any
\* moment after startup.
LifecycleNext == Next \/ shutdown

LifecycleSpec == Init /\ [][LifecycleNext]_vars

\* Bytes that json.loads cannot decode.
Garbage == [bytes |-> "not json"]

\* The store is an external service (settings.redis_url) that the batcher
\* reads as raw bytes: another writer, or a fault of the store, leaves under
\* a key a value that is no JSON text.  Only a batcher that is connected to
\* the store can see it.
store_corrupts(k) ==
    /\ ~stopped
    /\ self_redis
    /\ IF cache[k] = None THEN TRUE ELSE cache[k].val # Garbage
    /\ cache' = [cache EXCEPT ![k] = [val |-> Garbage, ex |-> CacheTTL]]
    /\ UNCHANGED <<stopped, call, instance, redis, queue, requests, bpc, expired, batch, locals, last>>

\* The service with a store whose entries are not all the batcher's own.
StoreNext == Next \/ \E k \in AllKeys : store_corrupts(k)

StoreSpec == Init /\ [][StoreNext]_vars

(***************************************************************************)
(* The batcher the embed route calls (app.state: no store), with requests  *)
(* for the local adapter, under the scheduling of the event loop: a task   *)
(* that can run does run, time passes, and the adapter's call comes back   *)
(* (with vectors or with an exception).                                    *)
(***************************************************************************)
LiveRequests == 3

LiveInputLists == {<<>>, << <<"a">> >>}

LiveInit == Init /\ instance = "state"

LiveNext ==
    \/ startup
    \/ \E inputs \in LiveInputLists :
          Len(requests) < LiveRequests /\ process_embed_request("local", inputs, FALSE)
    \/ window_elapses
    \/ run_get_head
    \/ run_fill
    \/ run_close_batch
    \/ process_batch_probe(FALSE)
    \/ \E outcome \in EmbedOutcomes : process_batch_embed(outcome)

LiveSpec ==
    /\ LiveInit
    /\ [][LiveNext]_vars
    /\ WF_vars(window_elapses)
    /\ WF_vars(run_get_head)
    /\ WF_vars(run_fill)
    /\ WF_vars(run_close_batch)
    /\ WF_vars(process_batch_probe(FALSE))
    /\ WF_vars(\E outcome \in EmbedOutcomes : process_batch_embed(outcome))

(***************************************************************************)
(* choose_adapter(adapters, provider, model, settings).  The registry is a *)
(* dict: it is modelled as the sequence of its keys in insertion order,    *)
(* and an adapter is named by its key.  An optional argument is a sequence *)
(* of length 0 (None) or 1.                                                *)
(***************************************************************************)
Providers == {"openai", "anthropic", "local"}

Registries ==
    LET seqs == {<<>>} \cup {<<p>> : p \in Providers}
                       \cup {<<p, q>> : p \in Providers, q \in Providers}
                       \cup {<<p, q, r>> : p \in Providers, q \in Providers, r \in Providers}
    IN  {sq \in seqs : \A i, k \in DOMAIN sq : i # k => sq[i] # sq[k]}

ProviderArgs == {<<>>, <<"">>, <<"other">>} \cup {<<p>> : p \in Providers}

ModelArgs == {<<>>, <<"auto">>, <<"m">>}

SettingsArgs == {<<>>, <<[prefer_local |-> FALSE]>>, <<[prefer_local |-> TRUE]>>}

Return(v) == [k |-> "return", value |-> v]

Raise(e) == [k |-> "raise", exc |-> e]

\* Python truth of an optional string: neither None nor "".
Truthy(arg) == arg # <<>> /\ arg[1] # ""

\* A selection that reads the model hint: "m" asks for the local model.
choose_adapter_by_model(adapters, provider, model, settings) ==
    IF model = <<"m">> /\ "local" \in Range(adapters) THEN Return(<<"local">>)
    ELSE IF adapters = <<>> THEN Return(<<>>)
    ELSE Return(<<adapters[1]>>)

\* adapters.get("local", list(adapters.values())[0]) evaluates its default
\* first: IndexError on an empty registry.
choose_adapter(adapters, provider, model, settings) ==
    LET has(p) == p \in Range(adapters)
    IN  IF Truthy(provider)
        THEN IF has(provider[1]) THEN Return(<<provider[1]>>)
             ELSE IF adapters = <<>> THEN Raise("IndexError")
             ELSE IF has("local") THEN Return(<<"local">>)
             ELSE Return(<<adapters[1]>>)
        ELSE IF settings # <<>> /\ settings[1].prefer_local /\ has("local")
        THEN Return(<<"local">>)
        ELSE IF has("openai") THEN Return(<<"openai">>)
        ELSE IF has("anthropic") THEN Return(<<"anthropic">>)
        ELSE IF has("local") THEN Return(<<"local">>)
        ELSE IF adapters # <<>> THEN Return(<<adapters[1]>>)
        ELSE Return(<<>>)

ChooseInit ==
    /\ Constructed
    /\ instance = "state"
    /\ call \in {[pc |-> "call", adapters |-> r, provider |-> p, model |-> m, settings |-> st,
                  result |-> Return(<<>>)] :
                     r \in Registries, p \in ProviderArgs, m \in ModelArgs, st \in SettingsArgs}

\* The call is made and returns or raises.
choose_adapter_call ==
    /\ call.pc = "call"
    /\ call' = [call EXCEPT !.pc = "done",
                   !.result = choose_adapter(call.adapters, call.provider, call.model, call.settings)]
    /\ UNCHANGED <<stopped, instance, redis, cache, queue, requests, bpc, expired, batch, locals, last>>

ChooseNext == choose_adapter_call

ChooseSpec == ChooseInit /\ [][ChooseNext]_vars

(***************************************************************************)
(* Properties.                                                             *)
(***************************************************************************)

\* A batch is in _process_batch.
InDispatch == bpc \in {"probe", "embed", "set"}

\* The waiters of the last ended dispatch that were not cancelled when it ended.
LastLive == Range(last.batch) \ last.cancelled

\* Exceptions that come from the store, the adapter or the work items.
Failures == {"cache_read", "cache_write", "decode", "adapter_error", "IndexError", "KeyError"}

\* C1: every batch handed to _process_batch holds work items of one adapter only.
BatchHomogeneity ==
    InDispatch =>
        \A i, k \in DOMAIN batch : requests[batch[i]].adapter = requests[batch[k]].adapter

\* C2: a successful response (from the cache, or from a dispatch that raised
\* nothing and whose provider call returned one vector per text) has one vector and
\* one flag per input, and vectors[i] is the vector of inputs[i] computed by
\* the adapter whose name and version the response reports.
PositionalFidelity ==
    \A j \in DOMAIN requests :
        (\/ requests[j].st = "fast"
         \/ /\ requests[j].st = "result"
            /\ j \in Range(last.batch)
            /\ last.exc = "none"
            /\ last.outcome \in {"none", "ok"})
        => /\ FullResult(j)
           /\ \E a \in Adapters :
                /\ name(a) = requests[j].res.adapter_name
                /\ version(a) = requests[j].res.adapter_version
                /\ \A i \in DOMAIN requests[j].inputs :
                      requests[j].res.vectors[i] = Vec(a, requests[j].inputs[i])

\* C3: the run() task is never ended by a failure inside a dispatch.
LoopAlive == bpc # "dead"

\* C4: when embed_batch raised, every waiter of the batch that was not
\* cancelled holds that error, none holds a result, and the cancelled ones
\* stay cancelled.
ErrorFanOut ==
    last.exc = "adapter_error" =>
        /\ ~last.crashed
        /\ \A j \in Range(last.batch) :
              IF j \in last.cancelled
              THEN requests[j].st = "cancelled"
              ELSE /\ requests[j].st = "error"
                   /\ requests[j].res = [error |-> "adapter_error"]

\* C4 witness: embed_batch raised for a batch of two waiters, one of them cancelled.
ErrorFanOutWitness ==
    /\ last.exc = "adapter_error"
    /\ Len(last.batch) = 2
    /\ Cardinality(last.cancelled) = 1
    /\ \E j \in LastLive : requests[j].st = "error"

\* C5: after a dispatch (whose provider call, if any, returned one vector
\* per text), either every waiter that was not cancelled holds a full result,
\* or every such waiter holds an error.
NoPartialSuccess ==
    last.batch # <<>> /\ last.outcome \in {"none", "ok"} =>
        \/ \A j \in LastLive : FullResult(j)
        \/ \A j \in LastLive : requests[j].st = "error"

\* C6: the list passed to embed_batch holds no text twice.
NoDuplicateCall ==
    bpc = "embed" =>
        \A i, k \in DOMAIN to_call : i # k => to_call[i] # to_call[k]

\* C7: on the batcher the embed route uses, with the store configured, a
\* successful request whose inputs were all inputs of earlier successful
\* requests of the same adapter gets cached = true for every input.
CacheDeterminism ==
    instance = "state" /\ redis["main"] =>
        \A j \in DOMAIN requests :
            requests[j].st \in {"fast", "result"} /\ requests[j].warm =>
                \A p \in DOMAIN requests[j].res.cached : requests[j].res.cached[p] = TRUE

\* C8: a failing mget never reaches a caller as an error.
CacheReadDegrades ==
    \A j \in DOMAIN requests : requests[j].res # [error |-> "cache_read"]

\* C9: a failing set never reaches a waiter as an error.
CacheWriteSwallowed ==
    \A j \in DOMAIN requests : requests[j].res # [error |-> "cache_write"]

\* C10: when a dispatch whose batch holds a cancelled waiter meets no failure
\* of the store, the adapter or a work item, the cancelled waiter stays
\* cancelled, run() goes on, and every other waiter of the batch holds a
\* result with, for each of its inputs, the vector the adapter the batch was
\* dispatched to computes for that input.
CancellationIsolation ==
    /\ last.cancelled # {}
    /\ last.exc \notin Failures
    /\ last.outcome \in {"none", "ok"}
    => /\ ~last.crashed
       /\ \A j \in last.cancelled : requests[j].st = "cancelled"
       /\ \A j \in LastLive :
             /\ FullResult(j)
             /\ requests[j].st = "result"
             /\ \A i \in DOMAIN requests[j].inputs :
                   requests[j].res.vectors[i] = Vec(last.adapter, requests[j].inputs[i])

\* C10 witness: a dispatch ended with one waiter cancelled and another one
\* holding its result.
CancellationIsolationWitness ==
    /\ last.cancelled # {}
    /\ last.exc = "none"
    /\ \E j \in LastLive : requests[j].st = "result" /\ requests[j].inputs # <<>>

\* C11: every work item on the queue is eventually in a batch that is
\* handed to _process_batch.
NoStarvation ==
    \A j \in 1..LiveRequests :
        (j \in Range(queue)) ~> (j \in Range(batch) /\ InDispatch)

\* C12: the batching window starts when the head item is received: at that
\* moment none of it has been used up, whatever the time the loop has spent
\* waiting for the item.
WindowFromHead ==
    [][(bpc = "head" /\ bpc' = "fill") => ~expired']_vars

\* C13: after shutdown no work item of the queue has a waiter that is still
\* pending: each was completed with a shutdown error (or had been cancelled
\* by its submitter).
ShutdownDrain ==
    stopped =>
        \A j \in Range(queue) :
            \/ requests[j].st = "cancelled"
            \/ requests[j].st = "error" /\ requests[j].res = [error |-> "shutdown"]

\* C17: when embed_batch returned a list shorter or longer than the list it
\* was given, every waiter of the batch that was not cancelled holds an
\* error and none holds vectors.
LengthMismatchFails ==
    last.outcome \in {"short", "long"} =>
        \A j \in LastLive : requests[j].st = "error"

\* C18: the except handler of _process_batch never reaches a waiter that
\* already holds a result, so set_exception is never called on a completed
\* waiter.
SingleResolution == ~last.crashed

\* The request put a work item on the queue.
Enqueued(j) == requests[j].st \notin {"fast", "raised"}

\* C19: job ids are given in the order of arrival.  The items that have not
\* left with an ended dispatch are, in the order of their arrival, the
\* current batch followed by the queue; they all arrived after the items of
\* the last ended batch, whose items are in the order of their arrival too.
FIFOBatching ==
    LET hi == IF last.batch = <<>> THEN 0 ELSE last.batch[Len(last.batch)]
        ids == [j \in 1..Len(requests) |-> j]
        later(j) == Enqueued(j) /\ j > hi
    IN  /\ batch \o queue = SelectSeq(ids, later)
        /\ \A i, k \in DOMAIN last.batch : i < k => last.batch[i] < last.batch[k]

\* C19 witness: a batch of two items is being dispatched.
FIFOBatchingWitness ==
    /\ InDispatch
    /\ Len(batch) = 2

\* C14: with a registry that is not empty, choose_adapter returns the
\* registered provider when one is given (a string that is not empty) and
\* registered; local, or else an adapter of the registry, when one is given
\* and not registered; otherwise local when prefer_local is set and local is
\* registered; otherwise the first registered of openai, anthropic, local.
\* Another model hint gives the same result.
SelectionPolicy ==
    call.pc = "done" /\ call.adapters # <<>> =>
        LET has(p) == p \in Range(call.adapters)
            given == Truthy(call.provider)
            prefer == call.settings # <<>> /\ call.settings[1].prefer_local
            allowed == IF given /\ has(call.provider[1]) THEN {call.provider[1]}
                       ELSE IF given /\ has("local") THEN {"local"}
                       ELSE IF given THEN Range(call.adapters)
                       ELSE IF prefer /\ has("local") THEN {"local"}
                       ELSE IF has("openai") THEN {"openai"}
                       ELSE IF has("anthropic") THEN {"anthropic"}
                       ELSE {"local"}
        IN  /\ call.result.k = "return"
            /\ call.result.value # <<>>
            /\ call.result.value[1] \in allowed
            /\ \A m \in ModelArgs :
                  choose_adapter(call.adapters, call.provider, m, call.settings) = call.result

\* C14 witness: prefer_local decided a call with a model hint and without
\* provider, on a registry that holds openai before local.
SelectionPolicyWitness ==
    /\ call.pc = "done"
    /\ call.adapters = <<"openai", "local">>
    /\ call.provider = <<>>
    /\ call.model = <<"m">>
    /\ call.settings = <<[prefer_local |-> TRUE]>>
    /\ call.result = Return(<<"local">>)

\* C15: with an empty registry choose_adapter raises the
\* no-adapters-available error, whatever its other arguments.
EmptyRegistryFails ==
    call.pc = "done" /\ call.adapters = <<>> =>
        call.result = Raise("NoAdaptersAvailable")

\* C16: a call of process_embed_request whose probe is answered with a value
\* for every input ends on the spot with the decoded values and all flags
\* true, and leaves the queue as it was; a request answered that way is never
\* on the queue nor in a batch, so no adapter call is made for it.
FastPath ==
    [][ /\ Len(requests') = Len(requests) + 1 =>
             LET n == Len(requests')
                 a == requests'[n].adapter
                 inputs == requests'[n].inputs
                 ks == [i \in DOMAIN inputs |-> sha_key(name(a), version(a), inputs[i])]
             IN  /\ self_redis
                 /\ requests'[n].res # [error |-> "cache_read"]
                 /\ \A i \in DOMAIN ks : cache[ks[i]] # None
                 => /\ requests'[n].st = "fast"
                    /\ requests'[n].res = Result(a, [i \in DOMAIN ks |-> json_loads(cache[ks[i]].val)],
                                                    [i \in DOMAIN ks |-> TRUE])
                    /\ queue' = queue
        /\ \A j \in DOMAIN requests :
              requests[j].st = "fast" =>
                  /\ requests'[j] = requests[j]
                  /\ j \notin Range(queue') \cup Range(batch')
      ]_vars

\* C16 witness: a request with inputs was answered from the store.
FastPathWitness ==
    \E j \in DOMAIN requests :
        /\ requests[j].st = "fast"
        /\ requests[j].inputs # <<>>
        /\ j \notin Range(queue)

\* C20: with a store, (a) when a dispatch ends without exception after an
\* adapter call that returned one vector per text, the store holds for every
\* input of the batch, under the key of (name, version, text) of the adapter
\* the batch was dispatched to, the encoded vector that adapter computes for
\* the text, with an expiry of 30 days; (b) the adapter is given exactly the
\* inputs that missed the re-probe; (c) the entry being written belongs to
\* an input that missed the re-probe.
WriteThrough ==
    self_redis =>
        /\ last.exc = "none" /\ last.outcome = "ok" =>
              \A j \in Range(last.batch) : \A i \in DOMAIN requests[j].inputs :
                  cache[sha_key(name(last.adapter), version(last.adapter), requests[j].inputs[i])]
                      = [val |-> json_dumps(Vec(last.adapter, requests[j].inputs[i])),
                         ex |-> 60 * 60 * 24 * 30]
        /\ bpc \in {"embed", "set"} =>
              /\ Len(to_call) = Len(to_call_indices)
              /\ \A k \in DOMAIN to_call :
                    /\ ~cached_flags[to_call_indices[k]]
                    /\ to_call[k] = flat_inputs[to_call_indices[k]]
              /\ \A i \in DOMAIN flat_inputs :
                    cached_flags[i] <=> i \notin Range(to_call_indices)
        /\ bpc = "embed" =>
              \A i \in DOMAIN flat_inputs : cached_flags[i] <=> cache[keys[i]] # None
        /\ bpc = "set" => ~cached_flags[to_call_indices[idx_local]]

\* C20 witness: a dispatch on the batcher with a store ended after an
\* adapter call, and the store holds an entry.
WriteThroughWitness ==
    /\ self_redis
    /\ last.exc = "none"
    /\ last.outcome = "ok"
    /\ last.batch # <<>>
    /\ \E k \in AllKeys : cache[k] # None

\* C21: a cache value that cannot be decoded never makes a request fail:
\* neither the submitter's probe nor the re-probe of a batch hands a decoding
\* error to a caller.
MalformedIsMiss ==
    \A j \in DOMAIN requests : requests[j].res # [error |-> "decode"]

\* C22: every entry of the store under the key of (name, version, text) of
\* an adapter holds the encoded vector that adapter's embed_batch returns for
\* the text; during a dispatch the keys are those of the adapter held by the
\* variable adapter, and the vectors to be written were returned by that
\* same adapter.
CacheIntegrity ==
    /\ \A a \in Adapters, t \in Texts :
          LET e == cache[sha_key(name(a), version(a), t)]
          IN  e # None => e.val = json_dumps(Vec(a, t))
    /\ InDispatch =>
          keys = [i \in DOMAIN flat_inputs |-> sha_key(name(adapter), version(adapter), flat_inputs[i])]
    /\ bpc = "set" =>
          \A k \in DOMAIN call_results : call_results[k].by = adapter

\* C22 witness: a batch with items of two adapters was dispatched on the
\* batcher with a store, and the store holds what the adapter call returned.
CacheIntegrityWitness ==
    /\ self_redis
    /\ last.exc = "none"
    /\ last.outcome = "ok"
    /\ \E i, k \in DOMAIN last.batch :
          requests[last.batch[i]].adapter # requests[last.batch[k]].adapter
    /\ \E t \in Texts :
          cache[sha_key(name(last.adapter), version(last.adapter), t)] # None

====
